---- MODULE Spec2Model ----
(***************************************************************************)
(* A model of hello.py, the AI job market dashboard script.                *)
(*                                                                         *)
(* The script is a straight-line pipeline that the reactive host runs from *)
(* the top on load and again whenever the salary slider moves.  The state  *)
(* is the script's globals (df, filtered_df, top_titles, ...), the slider  *)
(* value, the position in the script and the page of text/plotly/table     *)
(* calls made so far.  pandas / re / Counter calls are modelled by what    *)
(* they compute on the values the model draws.                             *)
(*                                                                         *)
(* Values:                                                                 *)
(*   - a cell that may be missing is <<>> (NaN / NaT) or <<v>>;            *)
(*   - a raw salary or date cell is a sequence of one-character strings;   *)
(*   - a skills text is a sequence of symbols: "," , " " and word symbols  *)
(*     (a word symbol stands for a run of characters that holds neither a  *)
(*     comma nor whitespace);                                              *)
(*   - a mean is the exact fraction <<sum, n>>; a value rounded to two     *)
(*     decimals is an integer number of hundredths.                        *)
(***************************************************************************)
EXTENDS Integers, Sequences, FiniteSets, TLC

VARIABLES
    raw,            \* the dataset get_df returns (one record per CSV row)
    df,             \* the script's df after the clean-up lines
    salary_min,     \* the slider's value
    filtered_df,    \* df[df.salary_usd >= salary_min]
    top_titles,     \* top 10 job titles
    top_locations,  \* top 10 company locations
    top_data,       \* rows in both top sets
    all_skills,     \* the skill tokens of all rows
    skill_counts,   \* Counter(all_skills).most_common(15)
    exploded_skills,\* one row per entry of each row's skills list
    page,           \* the text / plotly / table calls of this run, in order
    pc,             \* the section the script runs next
    prev_page,      \* the page of the previous completed run (<<>>: none yet)
    sort_stable,    \* build: numpy's default argsort keeps ties in order
    heatmap_raises  \* build: create_annotated_heatmap raises on an empty z

vars == <<raw, df, salary_min, filtered_df, top_titles, top_locations, top_data,
          all_skills, skill_counts, exploded_skills, page, pc, prev_page,
          sort_stable, heatmap_raises>>

-----------------------------------------------------------------------------
(* Missing values and small helpers *)

NaN == <<>>

Some(v) == <<v>>

IsNaN(c) == c = <<>>

NotNaN(c) == c # <<>>

Val(c) == c[1]

Min2(a, b) == IF a < b THEN a ELSE b

\* s.head(n)
Head_n(s, n) == SubSeq(s, 1, Min2(n, Len(s)))

\* The column of a frame as a sequence of cells.
Column(rows, col) == [i \in 1..Len(rows) |-> rows[i][col]]

Range(s) == {s[i] : i \in 1..Len(s)}

\* The distinct values of s in order of first appearance (a hash table's keys).
FirstSeen(s) ==
    LET firsts == {i \in 1..Len(s) : \A j \in 1..(i - 1) : s[j] # s[i]}
    IN [p \in 1..Cardinality(firsts) |->
           s[CHOOSE i \in firsts : Cardinality({j \in firsts : j < i}) = p - 1]]

CountOf(s, x) == Cardinality({i \in 1..Len(s) : s[i] = x})

\* Series.dropna()
DropNa(s) == SelectSeq(s, NotNaN)

-----------------------------------------------------------------------------
(* pd.to_numeric(errors='coerce') on a text cell *)

Digits == {"0", "1", "2", "3", "4", "5", "6", "7", "8", "9"}

DigitVal(c) ==
    CASE c = "0" -> 0 [] c = "1" -> 1 [] c = "2" -> 2 [] c = "3" -> 3
      [] c = "4" -> 4 [] c = "5" -> 5 [] c = "6" -> 6 [] c = "7" -> 7
      [] c = "8" -> 8 [] c = "9" -> 9

RECURSIVE DecimalValue(_)
DecimalValue(cs) ==
    IF cs = <<>> THEN 0
    ELSE 10 * DecimalValue(SubSeq(cs, 1, Len(cs) - 1)) + DigitVal(cs[Len(cs)])

AllDigits(cs) == \A i \in 1..Len(cs) : cs[i] \in Digits

\* (mutation of ToNumeric: an unparseable text becomes 0)
ZeroInsteadOfNaN(cs) ==
    IF cs # <<>> /\ AllDigits(cs) THEN Some(DecimalValue(cs)) ELSE Some(0)

\* A text of decimal digits parses to its value; anything else (the empty
\* text included) is coerced to NaN.
ToNumeric(cs) ==
    IF cs # <<>> /\ AllDigits(cs) THEN Some(DecimalValue(cs)) ELSE NaN

-----------------------------------------------------------------------------
(* pd.to_datetime(errors='coerce') on a YYYY-MM-DD text, and date parts *)

IsLeap(y) == (y % 4 = 0 /\ y % 100 # 0) \/ y % 400 = 0

DaysInMonth(y, m) ==
    IF m = 2 THEN (IF IsLeap(y) THEN 29 ELSE 28)
    ELSE IF m \in {4, 6, 9, 11} THEN 30 ELSE 31

\* A date is <<year, month, day>>.  A text that is not a calendar date is NaT.
ToDatetime(cs) ==
    IF /\ Len(cs) = 10
       /\ cs[5] = "-" /\ cs[8] = "-"
       /\ \A i \in {1, 2, 3, 4, 6, 7, 9, 10} : cs[i] \in Digits
    THEN LET y == DecimalValue(SubSeq(cs, 1, 4))
             m == DecimalValue(SubSeq(cs, 6, 7))
             d == DecimalValue(SubSeq(cs, 9, 10))
         IN IF m \in 1..12 /\ d >= 1 /\ d <= DaysInMonth(y, m)
            THEN Some(<<y, m, d>>) ELSE NaN
    ELSE NaN

\* Days since 1970-01-01 of a civil date.
DaysFromCivil(date) ==
    LET y0 == date[1]
        m == date[2]
        d == date[3]
        y == IF m <= 2 THEN y0 - 1 ELSE y0
        era == y \div 400
        yoe == y - era * 400
        mp == IF m > 2 THEN m - 3 ELSE m + 9
        doy == (153 * mp + 2) \div 5 + d - 1
        doe == yoe * 365 + yoe \div 4 - yoe \div 100 + doy
    IN era * 146097 + doe - 719468

\* .dt.year / .dt.month: missing for NaT
DtYear(c) == IF IsNaN(c) THEN NaN ELSE Some(Val(c)[1])

DtMonth(c) == IF IsNaN(c) THEN NaN ELSE Some(Val(c)[2])

\* (deadline - posting).dt.days: missing when either date is
DtDaysBetween(later, earlier) ==
    IF IsNaN(later) \/ IsNaN(earlier) THEN NaN
    ELSE Some(DaysFromCivil(Val(later)) - DaysFromCivil(Val(earlier)))

-----------------------------------------------------------------------------
(* Sorting.  Series.sort_values and value_counts sort with numpy's default *)
(* kind ("quicksort"), which promises no order among equal keys: the build *)
(* decides it.  stable = TRUE keeps equal keys in input order, FALSE is    *)
(* the representative other outcome, equal keys in reverse input order.    *)
(* Python's sorted / Counter.most_common are always stable.                *)

\* The sort keys of the script: whether a must come before b.
\*   "count": <<value, count>> pairs, descending by count
\*   "mean":  <<key, <<mean>>>> pairs, descending by the mean <<sum, n>>
\*   "int":   integers, ascending
Before(by, a, b) ==
    CASE by = "count" -> a[2] > b[2]
      [] by = "mean" -> Val(a[2])[1] * Val(b[2])[2] > Val(b[2])[1] * Val(a[2])[2]
      [] by = "int" -> a < b

\* items sorted by the key `by`; items that neither precede the other keep
\* input order (stable) or reverse it.
SortedBy(items, by, stable) ==
    LET n == Len(items)
        Tied(i, j) == ~Before(by, items[i], items[j]) /\ ~Before(by, items[j], items[i])
        Pos(i) == 1 + Cardinality({j \in 1..n : Before(by, items[j], items[i])})
                    + Cardinality({j \in 1..n : /\ Tied(i, j)
                                                /\ IF stable THEN j < i ELSE j > i})
    IN [p \in 1..n |-> items[CHOOSE i \in 1..n : Pos(i) = p]]

\* Series.value_counts(): <<value, count>> pairs of the non-missing values,
\* keys taken in order of first appearance, then sort_values(ascending=False).
ValueCounts(cells, stable) ==
    LET present == DropNa(cells)
        keys == FirstSeen(present)
        pairs == [i \in 1..Len(keys) |-> <<Val(keys[i]), CountOf(present, keys[i])>>]
    IN SortedBy(pairs, "count", stable)

\* Counter(tokens).most_common(n): sorted(items, key=count, reverse=True)[:n],
\* a stable sort over the counter's insertion order.
MostCommon(tokens, n) ==
    LET keys == FirstSeen(tokens)
        pairs == [i \in 1..Len(keys) |-> <<keys[i], CountOf(tokens, keys[i])>>]
    IN Head_n(SortedBy(pairs, "count", TRUE), n)

\* .index.tolist() of a value_counts result
IndexList(pairs) == [i \in 1..Len(pairs) |-> pairs[i][1]]

\* Series.isin(values) on a cell: a missing cell is in no list of values
IsIn(cell, values) == NotNaN(cell) /\ Val(cell) \in Range(values)

-----------------------------------------------------------------------------
(* Reductions *)

RECURSIVE SumCells(_)
SumCells(cells) ==
    IF cells = <<>> THEN 0
    ELSE IF Len(cells) = 1 THEN Val(cells[1])
    ELSE SumCells(SubSeq(cells, 1, Len(cells) \div 2))
           + SumCells(SubSeq(cells, Len(cells) \div 2 + 1, Len(cells)))

\* Series.mean(): the mean <<sum, n>> of the non-missing cells, NaN if none.
MeanOf(cells) ==
    LET xs == DropNa(cells)
    IN IF xs = <<>> THEN NaN ELSE Some(<<SumCells(xs), Len(xs)>>)

\* Series.max() / .min(): over the non-missing cells, NaN if none.
MaxOf(cells) ==
    LET xs == DropNa(cells)
    IN IF xs = <<>> THEN NaN
       ELSE Some(CHOOSE v \in {Val(c) : c \in Range(xs)} :
                    \A c \in Range(xs) : Val(c) <= v)

MinOf(cells) ==
    LET xs == DropNa(cells)
    IN IF xs = <<>> THEN NaN
       ELSE Some(CHOOSE v \in {Val(c) : c \in Range(xs)} :
                    \A c \in Range(xs) : v <= Val(c))

\* a / b (a, b >= 0, b > 0) rounded to the nearest integer, halves to even
RoundHalfEven(a, b) ==
    LET q == a \div b
        r == a % b
    IN IF 2 * r < b THEN q
       ELSE IF 2 * r > b THEN q + 1
       ELSE IF q % 2 = 0 THEN q ELSE q + 1

\* .round(2) of a mean: hundredths, NaN stays NaN
Round2(m) ==
    IF IsNaN(m) THEN NaN ELSE Some(RoundHalfEven(100 * Val(m)[1], Val(m)[2]))

-----------------------------------------------------------------------------
(* groupby and pivot_table *)

\* A row's group key over the key columns; groupby drops a row whose key
\* holds a missing value (dropna=True).
KeyOf(row, keycols) == [i \in 1..Len(keycols) |-> row[keycols[i]]]

\* (mutation of HasKey: a missing key is a key like any other)
HasKeyOrNot(row, keycols) == TRUE

HasKey(row, keycols) == \A i \in 1..Len(keycols) : NotNaN(row[keycols[i]])

GroupKeys(rows, keycols) ==
    {KeyOf(rows[i], keycols) : i \in {j \in 1..Len(rows) : HasKey(rows[j], keycols)}}

\* The value cells of the rows of one group, in row order.
GroupCells(rows, keycols, key, valcol) ==
    LET InGroup(r) == HasKey(r, keycols) /\ KeyOf(r, keycols) = key
    IN Column(SelectSeq(rows, InGroup), valcol)

\* rows.groupby(keycols)[valcol].mean(): one entry per observed key; the
\* mean skips missing values and is NaN for a group that has none.
GroupByMean(rows, keycols, valcol) ==
    [k \in GroupKeys(rows, keycols) |-> MeanOf(GroupCells(rows, keycols, k, valcol))]

\* rows.groupby(keycols).size()
GroupBySize(rows, keycols) ==
    [k \in GroupKeys(rows, keycols) |->
        Cardinality({i \in 1..Len(rows) :
                        HasKey(rows[i], keycols) /\ KeyOf(rows[i], keycols) = k})]

\* rows.groupby(keycols)[valcol].agg(["min", "max", "mean"])
GroupByMinMaxMean(rows, keycols, valcol) ==
    [k \in GroupKeys(rows, keycols) |->
        LET cells == GroupCells(rows, keycols, k, valcol)
        IN [min |-> MinOf(cells), max |-> MaxOf(cells), mean |-> MeanOf(cells)]]

\* (mutation of PivotMean: fill_value=0)
PivotMeanZeroFilled(rows, rowcol, colcol, valcol) ==
    LET agged == GroupByMean(rows, <<rowcol, colcol>>, valcol)
        kept == {k \in DOMAIN agged : NotNaN(agged[k])}
        idx == {k[1] : k \in kept}
        cols == {k[2] : k \in kept}
    IN [index |-> idx, columns |-> cols,
        cell |-> [k \in idx \X cols |->
                     IF <<k[1], k[2]>> \in kept
                     THEN Round2(agged[<<k[1], k[2]>>]) ELSE Some(0)]]

\* rows.pivot_table(index=rowcol, columns=colcol, values=valcol,
\* aggfunc="mean").round(2): the grouped means, groups whose mean is NaN
\* dropped (dropna=True), unstacked; a combination without a kept group is a
\* NaN cell (no fill_value); the labels are those of the kept groups.
PivotMean(rows, rowcol, colcol, valcol) ==
    LET agged == GroupByMean(rows, <<rowcol, colcol>>, valcol)
        kept == {k \in DOMAIN agged : NotNaN(agged[k])}
        idx == {k[1] : k \in kept}
        cols == {k[2] : k \in kept}
    IN [index |-> idx, columns |-> cols,
        cell |-> [k \in idx \X cols |->
                     IF <<k[1], k[2]>> \in kept
                     THEN Round2(agged[<<k[1], k[2]>>]) ELSE NaN]]

-----------------------------------------------------------------------------
(* Skills texts *)

IsSpace(sym) == sym = " "

RECURSIVE SkipSpaces(_)
SkipSpaces(text) ==
    IF text # <<>> /\ IsSpace(Head(text)) THEN SkipSpaces(Tail(text)) ELSE text

\* re.split(r',\s*', text), cur being the piece under construction
RECURSIVE ReSplitFrom(_, _)
ReSplitFrom(text, cur) ==
    IF text = <<>> THEN <<cur>>
    ELSE IF Head(text) = ","
         THEN <<cur>> \o ReSplitFrom(SkipSpaces(Tail(text)), <<>>)
         ELSE ReSplitFrom(Tail(text), Append(cur, Head(text)))

ReSplit(text) == ReSplitFrom(text, <<>>)

\* text.split(",")
RECURSIVE SplitFrom(_, _)
SplitFrom(text, cur) ==
    IF text = <<>> THEN <<cur>>
    ELSE IF Head(text) = ","
         THEN <<cur>> \o SplitFrom(Tail(text), <<>>)
         ELSE SplitFrom(Tail(text), Append(cur, Head(text)))

Split(text) == SplitFrom(text, <<>>)

\* str.strip()
RECURSIVE Strip(_)
Strip(tok) ==
    IF tok = <<>> THEN tok
    ELSE IF IsSpace(Head(tok)) THEN Strip(Tail(tok))
    ELSE IF IsSpace(tok[Len(tok)]) THEN Strip(SubSeq(tok, 1, Len(tok) - 1))
    ELSE tok

RECURSIVE Flatten(_)
Flatten(lists) ==
    IF lists = <<>> THEN <<>>
    ELSE IF Len(lists) = 1 THEN lists[1]
    ELSE Flatten(SubSeq(lists, 1, Len(lists) \div 2))
           \o Flatten(SubSeq(lists, Len(lists) \div 2 + 1, Len(lists)))

NonEmpty(tok) == tok # <<>>

\* [skill.strip() for skill in re.split(r',\s*', x) if skill.strip()]
SkillTokens(text) ==
    LET pieces == ReSplit(text)
    IN SelectSeq([i \in 1..Len(pieces) |-> Strip(pieces[i])], NonEmpty)

\* [s.strip() for s in x.split(",")]
SkillList(text) ==
    LET pieces == Split(text)
    IN [i \in 1..Len(pieces) |-> Strip(pieces[i])]

\* all_skills: the tokens of every non-missing skills cell, in row order
AllSkills(rows) ==
    LET cells == DropNa(Column(rows, "required_skills"))
    IN Flatten([i \in 1..Len(cells) |-> SkillTokens(Val(cells[i]))])

\* df[["salary_usd", "required_skills"]].dropna(), the skills cell replaced
\* by its list, then .explode("required_skills"): one row per list entry
ExplodedSkills(rows) ==
    LET Complete(r) == NotNaN(r.salary_usd) /\ NotNaN(r.required_skills)
        kept == SelectSeq(rows, Complete)
        RowsOf(r) ==
            LET lst == SkillList(Val(r.required_skills))
            IN [i \in 1..Len(lst) |->
                   [salary_usd |-> r.salary_usd, required_skills |-> Some(lst[i])]]
    IN Flatten([i \in 1..Len(kept) |-> RowsOf(kept[i])])

-----------------------------------------------------------------------------
(* Series.describe() *)

Ascending(cells) ==
    LET xs == DropNa(cells)
    IN SortedBy([i \in 1..Len(xs) |-> Val(xs[i])], "int", TRUE)

\* The k-th quartile, linear interpolation, in hundredths.
Quartile(cells, k) ==
    LET xs == Ascending(cells)
        n == Len(xs)
        lo == ((n - 1) * k) \div 4
        frac4 == ((n - 1) * k) % 4
    IN IF n = 0 THEN NaN
       ELSE IF frac4 = 0 THEN Some(100 * xs[lo + 1])
       ELSE Some(100 * xs[lo + 1] + 25 * frac4 * (xs[lo + 2] - xs[lo + 1]))

Hundredths(c) == IF IsNaN(c) THEN NaN ELSE Some(100 * Val(c))

\* df["salary_usd"].describe().round(2), without the standard deviation (a
\* square root, which the integers of the model do not hold).
Describe(cells) ==
    [count |-> Len(DropNa(cells)),
     mean |-> Round2(MeanOf(cells)),
     min |-> Hundredths(MinOf(cells)),
     q25 |-> Quartile(cells, 1),
     q50 |-> Quartile(cells, 2),
     q75 |-> Quartile(cells, 3),
     max |-> Hundredths(MaxOf(cells))]

-----------------------------------------------------------------------------
(* Orders of labels: groupby sorts its keys *)

\* Every category label of the model in ascending (code point) order.
Collation ==
    <<"Acme", "Beta", "Finance", "Tech">>

LabelRank(x) == CHOOSE i \in 1..Len(Collation) : Collation[i] = x

\* Code point order of the symbols of a skills text.
SymbolOrder ==
    <<" ", ",", "AWS", "Azure", "Docker", "GCP", "Git", "Hadoop", "Java",
      "Kubernetes", "Linux", "NLP", "PyTorch", "Python", "R", "SQL", "Scala",
      "Spark", "Tableau">>

SymbolRank(x) == CHOOSE i \in 1..Len(SymbolOrder) : SymbolOrder[i] = x

RECURSIVE TokenLess(_, _)
TokenLess(a, b) ==
    IF b = <<>> THEN FALSE
    ELSE IF a = <<>> THEN TRUE
    ELSE IF Head(a) = Head(b) THEN TokenLess(Tail(a), Tail(b))
    ELSE SymbolRank(Head(a)) < SymbolRank(Head(b))

\* Order of two one-column group keys <<Some(x)>>: labels or skill tokens.
KeyBefore(kind, a, b) ==
    IF kind = "label" THEN LabelRank(Val(a[1])) < LabelRank(Val(b[1]))
    ELSE TokenLess(Val(a[1]), Val(b[1]))

\* A grouped series as <<key, value>> pairs in key order.
InKeyOrder(grouped, kind) ==
    LET keys == DOMAIN grouped
        n == Cardinality(keys)
    IN [p \in 1..n |->
           LET k == CHOOSE k \in keys :
                      Cardinality({j \in keys : KeyBefore(kind, j, k)}) = p - 1
           IN <<k[1], grouped[k]>>]

\* sort_values(ascending=False) of a grouped mean: the values that are not
\* NaN sorted by the build's sort, then the NaN ones in key order.
SortMeansDesc(pairs, stable) ==
    LET HasMean(x) == NotNaN(x[2])
        NoMean(x) == IsNaN(x[2])
    IN SortedBy(SelectSeq(pairs, HasMean), "mean", stable)
         \o SelectSeq(pairs, NoMean)

-----------------------------------------------------------------------------
(* The script's constants *)

SliderMin == 0
SliderMax == 400000
SliderDefault == 50000
SliderStep == 5000
TopTitlesN == 10
TopLocationsN == 10
TopSkillsN == 15
TopSkillSalaryN == 10
JobFreqN == 15
MapLocationsN == 30
TopCompaniesN == 5
TopIndustriesN == 15
StaticYear == 2024

\* The values the slider can take.
IsSliderValue(v) ==
    v >= SliderMin /\ v <= SliderMax /\ (v - SliderMin) % SliderStep = 0

-----------------------------------------------------------------------------
(* Inputs: the datasets and slider values the model draws *)

\* Rows per dataset.
MaxRows == 2

\* The slider values tried: the lowest, and the default (which is also the
\* value of one salary text below and above another).
SliderChoices == {v \in {SliderMin, SliderDefault} : IsSliderValue(v)}

SeqsUpTo(S, n) == UNION {[1..k -> S] : k \in 0..n}

\* Raw salary cells: zero, below the default threshold, at it, not a number.
SalaryTexts ==
    {<<"0">>, <<"4", "0", "0", "0", "0">>, <<"5", "0", "0", "0", "0">>,
     <<"n", "/", "a">>}

Date2024 == <<"2", "0", "2", "4", "-", "0", "1", "-", "3", "1">>
Date2025 == <<"2", "0", "2", "5", "-", "0", "3", "-", "0", "1">>
DateNoSuchDay == <<"2", "0", "2", "4", "-", "0", "2", "-", "3", "0">>
DateTbd == <<"t", "b", "d">>

PythonSql == <<"Python", ",", " ", "SQL">>

\* A CSV row.
RawRowOf(title, company, location, level, industry, skills, salary, posting, deadline) ==
    [job_title |-> Some(title),
     company_name |-> Some(company),
     company_location |-> Some(location),
     employment_type |-> Some("FT"),
     experience_level |-> Some(level),
     industry |-> Some(industry),
     required_skills |-> skills,
     salary_usd |-> salary,
     posting_date |-> posting,
     application_deadline |-> deadline]

\* A row of Acme in the United States, the fields not given being the same
\* in all such rows.
RawRow(title, salary) ==
    RawRowOf(title, "Acme", "United States", "SE", "Tech", Some(PythonSql), salary,
             Date2024, Date2025)

\* Rows that differ in job title and salary text.
SalaryRows ==
    {RawRow(t, s) : t \in {"Data Scientist", "ML Engineer"}, s \in SalaryTexts}

\* Rows that differ in what parses: the salary, and the two dates together.
CoerceRows ==
    {RawRowOf("Data Scientist", "Acme", "United States", "SE", "Tech",
              Some(PythonSql), s, d[1], d[2]) :
        s \in {<<"0">>, <<"4", "0", "0", "0", "0">>, <<"n", "/", "a">>},
        d \in {<<Date2024, Date2025>>, <<DateNoSuchDay, DateTbd>>}}

\* Rows that differ in their dates and job title.
DateRows ==
    {RawRowOf(t, "Acme", "United States", "SE", "Tech", Some(PythonSql),
              <<"4", "0", "0", "0", "0">>, p, d) :
        t \in {"Data Scientist", "ML Engineer"},
        p \in {Date2024, Date2025, DateNoSuchDay},
        d \in {Date2025, DateTbd}}

\* Rows that differ in the columns the grouped means group by, and in salary.
\* Company, industry, country and posting year change together.
GroupRows ==
    {RawRowOf("Data Scientist", o[1], o[2], lv, o[3], Some(PythonSql), s, o[4],
              Date2025) :
        o \in {<<"Acme", "United States", "Tech", Date2024>>,
               <<"Beta", "United Kingdom", "Finance", Date2025>>},
        lv \in {"EN", "SE"},
        s \in {<<"0">>, <<"4", "0", "0", "0", "0">>, <<"n", "/", "a">>}}

\* Rows that differ in the pivot's keys and in salary.
MaxPivotRows == 3

PivotRows ==
    {RawRowOf(t, "Acme", l, "SE", "Tech", Some(PythonSql), s, Date2024, Date2025) :
        t \in {"Data Scientist", "ML Engineer"},
        l \in {"United States", "United Kingdom"},
        s \in {<<"0">>, <<"4", "0", "0", "0", "0">>, <<"n", "/", "a">>}}

\* Skills texts: every text of one to MaxTextLen symbols.
MaxTextLen == 4

SkillSymbols == {"Python", "SQL", ",", " "}

SkillTexts == UNION {[1..k -> SkillSymbols] : k \in 1..MaxTextLen}

SkillRows ==
    {RawRowOf("Data Scientist", "Acme", "United States", "SE", "Tech", sk,
              <<"4", "0", "0", "0", "0">>, Date2024, Date2025) :
        sk \in {NaN} \cup {Some(t) : t \in SkillTexts}}

\* A dataset with more distinct values than each top-N keeps: 31 countries
\* (each once), 11 job titles (nine three times, two twice), 16 skills
\* (fifteen twice, one once); then up to MaxExtraRows more rows.
Countries ==
    <<"United States", "United Kingdom", "Canada", "Germany", "France",
      "India", "Japan", "China", "Australia", "Brazil", "Netherlands",
      "Sweden", "Norway", "Denmark", "Finland", "Ireland", "Israel",
      "Singapore", "South Korea", "Spain", "Italy", "Switzerland", "Austria",
      "Belgium", "Poland", "Portugal", "Mexico", "Argentina", "Chile",
      "Egypt", "Kenya">>

JobTitles ==
    <<"Data Scientist", "ML Engineer", "Data Analyst", "AI Researcher",
      "Data Engineer", "NLP Engineer", "AI Architect", "Research Scientist",
      "Robotics Engineer", "AI Consultant", "Head of AI",
      "AI Product Manager">>

SkillNames ==
    <<"Python", "SQL", "AWS", "Azure", "Docker", "GCP", "Git", "Hadoop",
      "Java", "Kubernetes", "Linux", "NLP", "PyTorch", "R", "Scala", "Spark",
      "Tableau">>

FillerRows == Len(Countries)

MaxExtraRows == 1

Filler ==
    [i \in 1..FillerRows |->
        RawRowOf(JobTitles[((i - 1) % 11) + 1], "Acme", Countries[i], "SE", "Tech",
                 Some(<<SkillNames[((i - 1) % 16) + 1]>>),
                 <<"4", "0", "0", "0", "0">>, Date2024, Date2025)]

ExtraRows ==
    {RawRowOf(t, "Acme", l, "SE", "Tech", Some(<<sk>>), <<"4", "0", "0", "0", "0">>,
              Date2024, Date2025) :
        t \in {JobTitles[10], JobTitles[11], JobTitles[12]},
        l \in {Countries[1], Countries[31]},
        sk \in {SkillNames[16], SkillNames[17]}}

-----------------------------------------------------------------------------
(* The page: the calls the script makes to the dashboard host *)

Text(sec, what) == [sec |-> sec, fn |-> "text", what |-> what, data |-> <<>>]

Plotly(sec, what, data) == [sec |-> sec, fn |-> "plotly", what |-> what, data |-> data]

Table(sec, what, data) == [sec |-> sec, fn |-> "table", what |-> what, data |-> data]

\* The calls of one section.
Section(pg, sec) == LET Of(it) == it.sec = sec IN SelectSeq(pg, Of)

\* The calls of every section but the salary threshold's.
NotSalarySection(it) == it.sec # "salary_filter"

OtherSections(pg) == SelectSeq(pg, NotSalarySection)

-----------------------------------------------------------------------------
(* Lines 12-23: load, clean up, header *)

\* One row after lines 15-19.
CleanRow(r) ==
    LET posting == ToDatetime(r.posting_date)
    IN [job_title |-> r.job_title,
        company_name |-> r.company_name,
        company_location |-> r.company_location,
        employment_type |-> r.employment_type,
        experience_level |-> r.experience_level,
        industry |-> r.industry,
        required_skills |-> r.required_skills,
        salary_usd |-> ToNumeric(r.salary_usd),
        posting_date |-> posting,
        application_deadline |-> ToDatetime(r.application_deadline),
        posting_year |-> DtYear(posting),
        posting_month |-> DtMonth(posting)]

\* df after lines 15-19: every row kept, its fields coerced and derived.
CleanUp(rows) == [i \in 1..Len(rows) |-> CleanRow(rows[i])]

Cleanup ==
    /\ pc = "cleanup"
    /\ df' = CleanUp(raw)
    /\ page' = <<Text("header", "title"), Text("header", "intro")>>
    /\ pc' = "salary_filter"
    /\ UNCHANGED <<raw, salary_min, filtered_df, top_titles, top_locations,
                   top_data, all_skills, skill_counts, exploded_skills, prev_page, sort_stable, heatmap_raises>>

-----------------------------------------------------------------------------
(* Lines 26-36: the salary threshold section *)

\* (mutation of SalaryFloor: strictly above the threshold)
SalaryFloorStrict(rows, threshold) ==
    LET Keep(r) == NotNaN(r.salary_usd) /\ Val(r.salary_usd) > threshold
    IN SelectSeq(rows, Keep)

\* df[df["salary_usd"] >= salary_min]: NaN >= x is False
SalaryFloor(rows, threshold) ==
    LET Keep(r) == NotNaN(r.salary_usd) /\ Val(r.salary_usd) >= threshold
    IN SelectSeq(rows, Keep)

\* salary_min > df['salary_usd'].max(): False when the max is NaN
AboveAll(rows, threshold) ==
    LET mx == MaxOf(Column(rows, "salary_usd"))
    IN NotNaN(mx) /\ threshold > Val(mx)

\* (mutation of SalaryCalls: the histogram is plotted whatever was found)
SalaryCallsUnguarded(rows, kept, threshold) ==
    <<Plotly("salary_filter", "histogram", Column(kept, "salary_usd"))>>

\* The if / elif / else of lines 30-36.
SalaryCalls(rows, kept, threshold) ==
    IF AboveAll(rows, threshold)
    THEN <<Text("salary_filter", "warning_above_all")>>
    ELSE IF kept = <<>>
    THEN <<Text("salary_filter", "warning_none_found")>>
    ELSE <<Plotly("salary_filter", "histogram", Column(kept, "salary_usd"))>>

SalaryFilter ==
    /\ pc = "salary_filter"
    /\ filtered_df' = SalaryFloor(df, salary_min)
    /\ page' = page \o <<Text("salary_filter", "heading")>>
                    \o SalaryCalls(df, SalaryFloor(df, salary_min), salary_min)
    /\ pc' = "top_sets"
    /\ UNCHANGED <<raw, df, salary_min, top_titles, top_locations, top_data,
                   all_skills, skill_counts, exploded_skills, prev_page, sort_stable, heatmap_raises>>

-----------------------------------------------------------------------------
(* Lines 39-67: salary and experience insights *)

\* (mutation of InsightsFrame: the insights read the filtered frame)
InsightsFrameFiltered == filtered_df

\* The frame the sections after the salary threshold read.
InsightsFrame == df

\* rows[col].value_counts().head(n).index.tolist()
TopValues(rows, col, n, stable) ==
    IndexList(Head_n(ValueCounts(Column(rows, col), stable), n))

\* df[df.job_title.isin(titles) & df.company_location.isin(locations)]
InTopSets(rows, titles, locations) ==
    LET Keep(r) == IsIn(r.job_title, titles) /\ IsIn(r.company_location, locations)
    IN SelectSeq(rows, Keep)

TopSets ==
    /\ pc = "top_sets"
    /\ LET titles == TopValues(InsightsFrame, "job_title", TopTitlesN, sort_stable)
           locations == TopValues(InsightsFrame, "company_location", TopLocationsN,
                                  sort_stable)
       IN /\ top_titles' = titles
          /\ top_locations' = locations
          /\ top_data' = InTopSets(InsightsFrame, titles, locations)
    /\ page' = Append(page, Text("insights", "heading"))
    /\ pc' = "heatmap"
    /\ UNCHANGED <<raw, df, salary_min, filtered_df, all_skills, skill_counts, exploded_skills, prev_page,
                   sort_stable, heatmap_raises>>

\* heatmap_df of line 45
HeatmapDf(rows) == PivotMean(rows, "job_title", "company_location", "salary_usd")

\* Lines 46-53.  create_annotated_heatmap reads z[0]; on a pivot without any
\* row that read raises in the builds where heatmap_raises holds, and the
\* script stops there.
Heatmap ==
    /\ pc = "heatmap"
    /\ LET hm == HeatmapDf(top_data)
       IN \/ /\ hm.index = {}
             /\ heatmap_raises
             /\ pc' = "failed"
             /\ page' = page
          \/ /\ hm.index # {} \/ ~heatmap_raises
             /\ pc' = "boxplot"
             /\ page' = Append(page, Plotly("heatmap", "heatmap", hm))
    /\ UNCHANGED <<raw, df, salary_min, filtered_df, top_titles, top_locations,
                   top_data, all_skills, skill_counts, exploded_skills, prev_page, sort_stable, heatmap_raises>>

\* A section that only makes calls: they go on the page, the globals stay.
Emit(from, to, items) ==
    /\ pc = from
    /\ pc' = to
    /\ page' = page \o items
    /\ UNCHANGED <<raw, df, salary_min, filtered_df, top_titles, top_locations,
                   top_data, all_skills, skill_counts, exploded_skills, prev_page, sort_stable, heatmap_raises>>

\* The title and salary columns handed to px.box / px.violin / px.scatter.
Points(rows, col) ==
    [i \in 1..Len(rows) |-> <<rows[i][col], rows[i].salary_usd>>]

Boxplot ==
    Emit("boxplot", "violin",
         <<Plotly("boxplot", "box", Points(top_data, "job_title"))>>)

Violin ==
    Emit("violin", "experience",
         <<Plotly("violin", "violin", Points(top_data, "company_location"))>>)

\* exp_data of line 64
InLocations(rows, locations) ==
    LET Keep(r) == IsIn(r.company_location, locations)
    IN SelectSeq(rows, Keep)

Experience ==
    Emit("experience", "time_series",
         <<Plotly("experience", "bar",
                  GroupBySize(InLocations(InsightsFrame, top_locations),
                              <<"company_location", "experience_level">>))>>)

-----------------------------------------------------------------------------
(* Lines 70-83: trends over time, the Data Scientist 2024 view *)

\* A section's text("## ...") heading followed by its chart or table.
Headed(item) == <<Text(item.sec, "heading"), item>>

HasYear(r) == NotNaN(r.posting_year)

\* time_series of lines 71-72
TimeSeriesOf(rows) ==
    GroupByMean(SelectSeq(rows, HasYear), <<"posting_year", "experience_level">>,
                "salary_usd")

TimeSeries ==
    Emit("time_series", "ds_2024",
         Headed(Plotly("time_series", "line", TimeSeriesOf(InsightsFrame))))

\* ds_2024 of line 78: NaN == 2024 is False
StaticView(rows) ==
    LET Keep(r) == r.job_title = Some("Data Scientist")
                     /\ r.posting_year = Some(StaticYear)
    IN SelectSeq(rows, Keep)

DataScientist2024 ==
    LET ds == StaticView(InsightsFrame)
    IN \/ /\ ds # <<>>
          /\ Emit("ds_2024", "skills",
                  Headed(Plotly("ds_2024", "histogram", Column(ds, "salary_usd"))))
       \/ /\ ds = <<>>
          /\ Emit("ds_2024", "skills", Headed(Text("ds_2024", "warning_none_found")))

-----------------------------------------------------------------------------
(* Lines 86-102: skills *)

TopSkills ==
    /\ pc = "skills"
    /\ all_skills' = AllSkills(InsightsFrame)
    /\ skill_counts' = MostCommon(AllSkills(InsightsFrame), TopSkillsN)
    /\ page' = page \o Headed(Plotly("skills", "bar",
                                      MostCommon(AllSkills(InsightsFrame), TopSkillsN)))
    /\ pc' = "skill_salary"
    /\ UNCHANGED <<raw, df, salary_min, filtered_df, top_titles, top_locations,
                   top_data, exploded_skills, prev_page, sort_stable,
                   heatmap_raises>>

\* skill_salary of lines 98-100
SkillSalaryOf(exploded, counts, stable) ==
    LET top == IndexList(Head_n(counts, TopSkillSalaryN))
        Keep(r) == IsIn(r.required_skills, top)
        grouped == GroupByMean(SelectSeq(exploded, Keep),
                               <<"required_skills">>, "salary_usd")
    IN SortMeansDesc(InKeyOrder(grouped, "token"), stable)

SkillSalary ==
    /\ pc = "skill_salary"
    /\ exploded_skills' = ExplodedSkills(InsightsFrame)
    /\ page' = page \o Headed(Plotly("skill_salary", "bar",
                                      SkillSalaryOf(ExplodedSkills(InsightsFrame),
                                                    skill_counts, sort_stable)))
    /\ pc' = "desc_length"
    /\ UNCHANGED <<raw, df, salary_min, filtered_df, top_titles, top_locations,
                   top_data, all_skills, skill_counts, prev_page, sort_stable,
                   heatmap_raises>>

-----------------------------------------------------------------------------
(* Lines 105-133: scatter and box plots of the whole frame, job titles *)

\* The x columns of these plots (description length, remote ratio, company
\* size, education, years of experience) carry no computation: the call is
\* recorded with the salary column it plots.
WholeFrame(sec, what) == Headed(Plotly(sec, what, Column(InsightsFrame, "salary_usd")))

DescriptionLength == Emit("desc_length", "remote", WholeFrame("desc_length", "scatter"))

RemoteRatio == Emit("remote", "job_freq", WholeFrame("remote", "box"))

JobFreq ==
    Emit("job_freq", "salary_ranges",
         Headed(Plotly("job_freq", "bar",
                       Head_n(ValueCounts(Column(InsightsFrame, "job_title"),
                                          sort_stable),
                              JobFreqN))))

SalaryRanges ==
    Emit("salary_ranges", "monthly",
         <<Plotly("salary_ranges", "bar",
                  GroupByMinMaxMean(InsightsFrame, <<"job_title">>, "salary_usd"))>>)

-----------------------------------------------------------------------------
(* Lines 136-168: months, countries, companies, employment types *)

Monthly ==
    Emit("monthly", "exp_country",
         Headed(Plotly("monthly", "line",
                       GroupBySize(InsightsFrame, <<"posting_month">>))))

ExpCountry ==
    Emit("exp_country", "choropleth",
         Headed(Plotly("exp_country", "bar",
                       GroupByMean(InLocations(InsightsFrame, top_locations),
                                   <<"company_location", "experience_level">>,
                                   "salary_usd"))))

\* map_avg of lines 151-152
MapAvg(rows, stable) ==
    GroupByMean(InLocations(rows, TopValues(rows, "company_location", MapLocationsN,
                                            stable)),
                <<"company_location">>, "salary_usd")

Choropleth ==
    Emit("choropleth", "top_companies",
         Headed(Plotly("choropleth", "choropleth", MapAvg(InsightsFrame, sort_stable))))

\* top_companies of line 159
TopCompaniesOf(rows, stable) ==
    Head_n(SortMeansDesc(InKeyOrder(GroupByMean(rows, <<"company_name">>, "salary_usd"),
                                    "label"),
                         stable),
           TopCompaniesN)

TopCompanies ==
    Emit("top_companies", "employment",
         Headed(Table("top_companies", "table",
                      TopCompaniesOf(InsightsFrame, sort_stable))))

EmploymentType ==
    Emit("employment", "company_size",
         Headed(Plotly("employment", "pie",
                       ValueCounts(Column(InsightsFrame, "employment_type"),
                                   sort_stable))))

-----------------------------------------------------------------------------
(* Lines 171-214: the remaining sections *)

CompanySize == Emit("company_size", "education", WholeFrame("company_size", "box"))

Education == Emit("education", "years_exp", WholeFrame("education", "box"))

YearsExperience == Emit("years_exp", "deadline", WholeFrame("years_exp", "scatter"))

\* df["deadline_days"] of line 187
WithDeadlineDays(rows) ==
    [i \in 1..Len(rows) |->
        rows[i] @@ [deadline_days |->
                       DtDaysBetween(rows[i].application_deadline,
                                     rows[i].posting_date)]]

Deadline ==
    /\ pc = "deadline"
    /\ df' = WithDeadlineDays(df)
    /\ page' = page \o Headed(Plotly("deadline", "histogram",
                                      DropNa(Column(WithDeadlineDays(df),
                                                    "deadline_days"))))
    /\ pc' = "industry"
    /\ UNCHANGED <<raw, salary_min, filtered_df, top_titles, top_locations,
                   top_data, all_skills, skill_counts, exploded_skills, prev_page, sort_stable, heatmap_raises>>

\* industry_salary.head(15) of lines 193-194
IndustrySalaryOf(rows, stable) ==
    Head_n(SortMeansDesc(InKeyOrder(GroupByMean(rows, <<"industry">>, "salary_usd"),
                                    "label"),
                         stable),
           TopIndustriesN)

Industry ==
    Emit("industry", "stats",
         Headed(Plotly("industry", "bar",
                       IndustrySalaryOf(InsightsFrame, sort_stable))))

Stats ==
    /\ pc = "stats"
    /\ page' = page \o Headed([Text("stats", "summary") EXCEPT
                                  !.data = Describe(Column(InsightsFrame,
                                                           "salary_usd"))])
    /\ pc' = "theme"
    /\ UNCHANGED <<raw, df, salary_min, filtered_df, top_titles, top_locations,
                   top_data, all_skills, skill_counts, exploded_skills, prev_page, sort_stable, heatmap_raises>>

Theme == Emit("theme", "done", Headed(Text("theme", "notes")))

-----------------------------------------------------------------------------
(* The reactive host: a slider move runs the script again from the top *)

MoveSlider ==
    /\ pc \in {"done", "failed"}
    /\ \E v \in SliderChoices : salary_min' = v
    /\ prev_page' = page
    /\ pc' = "cleanup"
    /\ df' = <<>>
    /\ filtered_df' = <<>>
    /\ top_titles' = <<>>
    /\ top_locations' = <<>>
    /\ top_data' = <<>>
    /\ all_skills' = <<>>
    /\ skill_counts' = <<>>
    /\ exploded_skills' = <<>>
    /\ page' = <<>>
    /\ UNCHANGED <<raw, sort_stable, heatmap_raises>>

\* One run of the script.
Run ==
    \/ Cleanup \/ SalaryFilter \/ TopSets \/ Heatmap \/ Boxplot \/ Violin
    \/ Experience \/ TimeSeries \/ DataScientist2024 \/ TopSkills \/ SkillSalary
    \/ DescriptionLength \/ RemoteRatio \/ JobFreq \/ SalaryRanges \/ Monthly
    \/ ExpCountry \/ Choropleth \/ TopCompanies \/ EmploymentType \/ CompanySize
    \/ Education \/ YearsExperience \/ Deadline \/ Industry \/ Stats \/ Theme

Next == Run \/ MoveSlider

\* The state when the host first runs the script on a dataset.
Start(rows) ==
    /\ raw = rows
    /\ df = <<>>
    /\ salary_min = SliderDefault
    /\ filtered_df = <<>>
    /\ top_titles = <<>>
    /\ top_locations = <<>>
    /\ top_data = <<>>
    /\ all_skills = <<>>
    /\ skill_counts = <<>>
    /\ exploded_skills = <<>>
    /\ page = <<>>
    /\ pc = "cleanup"
    /\ prev_page = <<>>
    /\ sort_stable \in BOOLEAN
    /\ heatmap_raises \in BOOLEAN

-----------------------------------------------------------------------------
(* Specifications *)

\* The dashboard on datasets that vary salary and title, the slider moving.
Init == \E rows \in SeqsUpTo(SalaryRows, MaxRows) : Start(rows)

Spec == Init /\ [][Next]_vars

\* The dashboard on datasets that vary what the clean-up can and cannot parse.
InitCoerce == \E rows \in SeqsUpTo(CoerceRows, MaxRows) : Start(rows)

SpecCoerce == InitCoerce /\ [][Next]_vars

\* One run on datasets that vary the dates.
InitDates == \E rows \in SeqsUpTo(DateRows, MaxRows) : Start(rows)

SpecDates == InitDates /\ [][Run]_vars

\* One run on datasets that vary the group keys.
InitGroups == \E rows \in SeqsUpTo(GroupRows, MaxRows) : Start(rows)

SpecGroups == InitGroups /\ [][Run]_vars

\* The script up to the heatmap on datasets that vary the pivot's keys.
InitPivot == \E rows \in SeqsUpTo(PivotRows, MaxPivotRows) : Start(rows)

ToHeatmap == Cleanup \/ SalaryFilter \/ TopSets \/ Heatmap

SpecPivot == InitPivot /\ [][ToHeatmap]_vars

\* One run on one-row datasets that vary the skills text.
InitSkills == \E rows \in SeqsUpTo(SkillRows, 1) : Start(rows)

SpecSkills == InitSkills /\ [][Run]_vars

\* One run on the empty dataset and on datasets larger than the top-N sets.
InitTop ==
    \E rows \in {<<>>} \cup {Filler \o e : e \in SeqsUpTo(ExtraRows, MaxExtraRows)} :
        Start(rows)

SpecTop == InitTop /\ [][Run]_vars

-----------------------------------------------------------------------------
(* Claims *)

\* The sections that have run are those whose calls are on the page.
HasRun(sec) == \E i \in 1..Len(page) : page[i].sec = sec

\* The indices of the rows of df whose salary is present and at least t.
AtLeast(t) ==
    {i \in 1..Len(df) : NotNaN(df[i].salary_usd) /\ Val(df[i].salary_usd) >= t}

\* The salaries present in df.
PresentSalaries ==
    {Val(df[i].salary_usd) : i \in {j \in 1..Len(df) : NotNaN(df[j].salary_usd)}}

IsWarning(it) ==
    it.fn = "text" /\ it.what \in {"warning_above_all", "warning_none_found"}

IsPlot(it) == it.fn = "plotly"

SalaryWarnings == SelectSeq(Section(page, "salary_filter"), IsWarning)

SalaryHistograms == SelectSeq(Section(page, "salary_filter"), IsPlot)

\* The threshold is above every salary present, and there is one.
ThresholdAboveMax ==
    PresentSalaries # {} /\ \A v \in PresentSalaries : salary_min > v

\* C1: once the salary threshold section has run, it has made exactly one of
\* the two calls, warning or histogram; the histogram is there exactly when
\* the filtered frame has rows, and is drawn from them; a threshold above the
\* maximum salary present leaves the filtered frame empty and gives the
\* warning.  The section never stops the script: it always hands over to the
\* next one.
C1_WarningOrHistogram ==
    /\ pc = "failed" => HasRun("salary_filter")
    /\ HasRun("salary_filter") =>
         /\ Len(SalaryWarnings) + Len(SalaryHistograms) = 1
         /\ Len(SalaryHistograms) = 1 <=> filtered_df # <<>>
         /\ SalaryHistograms # <<>> =>
               SalaryHistograms[1].data = Column(filtered_df, "salary_usd")
         /\ ThresholdAboveMax => filtered_df = <<>> /\ Len(SalaryWarnings) = 1
         /\ PresentSalaries = {} => Len(SalaryWarnings) = 1

\* The spec's scenario: threshold 50,000 on a dataset whose maximum is 40,000.
C1_Witness ==
    /\ pc = "top_sets"
    /\ salary_min = 50000
    /\ PresentSalaries # {}
    /\ \A v \in PresentSalaries : v <= 40000
    /\ 40000 \in PresentSalaries
    /\ filtered_df = <<>>
    /\ Len(SalaryWarnings) = 1
    /\ SalaryHistograms = <<>>

\* The k-th smallest member of a set of indices.
Kth(idx, k) == CHOOSE i \in idx : Cardinality({j \in idx : j < i}) = k - 1

\* C2: after the filter, filtered_df holds exactly the rows of df whose salary
\* is present and >= the threshold, each once, unaltered and in df's order; no
\* row without a salary is among them.
C2_FloorKeepsExactly ==
    HasRun("salary_filter") =>
        /\ Len(filtered_df) = Cardinality(AtLeast(salary_min))
        /\ \A k \in 1..Len(filtered_df) :
              /\ NotNaN(filtered_df[k].salary_usd)
              /\ \A f \in DOMAIN filtered_df[k] :
                    filtered_df[k][f] = df[Kth(AtLeast(salary_min), k)][f]

\* Threshold 0 on a frame with a missing salary and a salary of 0: the row
\* with 0 is kept, the row without a salary is not.
C2_Witness ==
    /\ pc = "top_sets"
    /\ salary_min = 0
    /\ Len(df) = 2
    /\ IsNaN(df[1].salary_usd)
    /\ df[2].salary_usd = Some(0)
    /\ Len(filtered_df) = 1
    /\ filtered_df[1].salary_usd = Some(0)

\* Whether a plotly / table call was handed nothing.
IsEmptyVisual(it) ==
    /\ it.fn \in {"plotly", "table"}
    /\ IF it.what = "heatmap" THEN it.data.index = {} ELSE DOMAIN it.data = {}

\* C7: no section fails, and none hands an empty result to a chart or table:
\* an empty result is reported by a message instead.
C7_EmptyNeverPlotted ==
    /\ pc # "failed"
    /\ \A i \in 1..Len(page) : ~IsEmptyVisual(page[i])

\* C10: the base dataset never changes, the filter leaves df as it is, every
\* run starts from the same df, and a run's calls outside the salary threshold
\* section are those of the run before it, whatever the two thresholds were.
C10_OtherSectionsAgree ==
    /\ pc # "cleanup" =>
          Column(df, "salary_usd") = [i \in 1..Len(raw) |-> ToNumeric(raw[i].salary_usd)]
    /\ (pc \in {"done", "failed"} /\ prev_page # <<>>) =>
          OtherSections(page) = OtherSections(prev_page)

C10_ThresholdOnlyMovesItsSection ==
    /\ []C10_OtherSectionsAgree
    /\ [][raw' = raw /\ (pc = "salary_filter" => df' = df)]_vars

\* Two completed runs whose salary threshold sections differ.
C10_Witness ==
    /\ pc = "done"
    /\ prev_page # <<>>
    /\ Section(page, "salary_filter") # Section(prev_page, "salary_filter")
    /\ SalaryHistograms # <<>>
    /\ Len(OtherSections(page)) > 20

-----------------------------------------------------------------------------
(* Claims about coercion and derived fields *)

\* What a section handed to its chart or table (its last call).
Chart(sec) == LET s == Section(page, sec) IN s[Len(s)].data

\* A salary text that is not a number.
NotANumber(text) == text = <<>> \/ \E i \in 1..Len(text) : text[i] \notin Digits

\* The rows of the dataset whose salary text is a number, and the numbers.
Numbered == {i \in 1..Len(raw) : ~NotANumber(raw[i].salary_usd)}

NumberAt(i) == DecimalValue(raw[i].salary_usd)

RECURSIVE SumAt(_)
SumAt(S) ==
    IF S = {} THEN 0
    ELSE LET i == CHOOSE j \in S : TRUE IN NumberAt(i) + SumAt(S \ {i})

\* Mean, least and greatest of the salaries of a set of rows that have one.
MeanAt(S) == IF S = {} THEN NaN ELSE Some(<<SumAt(S), Cardinality(S)>>)

LeastAt(S) ==
    IF S = {} THEN NaN
    ELSE Some(CHOOSE v \in {NumberAt(i) : i \in S} : \A i \in S : v <= NumberAt(i))

GreatestAt(S) ==
    IF S = {} THEN NaN
    ELSE Some(CHOOSE v \in {NumberAt(i) : i \in S} : \A i \in S : v >= NumberAt(i))

\* Whether the cell c holds, in hundredths, the mean of the salaries of S
\* rounded to the nearest hundredth (S not empty).
IsMeanInHundredths(c, S) ==
    LET d == 100 * SumAt(S) - Val(c) * Cardinality(S)
    IN NotNaN(c) /\ 2 * d <= Cardinality(S) /\ 2 * (0 - d) <= Cardinality(S)

\* The date texts of the model that are no calendar date.
NotADate(text) == text \in {DateNoSuchDay, DateTbd}

\* C3: the clean-up keeps every row; a salary or date text that does not
\* parse becomes a missing field of its row, never 0; the row still counts
\* in the job title and employment type frequencies; and every salary
\* aggregate (floor filter, pivot cells, min / max / mean per title, the
\* company and industry means, describe) is that of the salaries that are
\* numbers, missing when there is none.
C3_CoercionKeepsRows ==
    /\ pc # "cleanup" =>
          /\ Len(df) = Len(raw)
          /\ \A i \in 1..Len(raw) :
                /\ df[i].job_title = raw[i].job_title
                /\ df[i].employment_type = raw[i].employment_type
                /\ i \in Numbered => df[i].salary_usd = Some(NumberAt(i))
                /\ i \notin Numbered => IsNaN(df[i].salary_usd)
                /\ NotADate(raw[i].posting_date) <=> IsNaN(df[i].posting_date)
                /\ NotADate(raw[i].posting_date) =>
                      IsNaN(df[i].posting_year) /\ IsNaN(df[i].posting_month)
                /\ NotADate(raw[i].application_deadline)
                      <=> IsNaN(df[i].application_deadline)
    /\ HasRun("salary_filter") =>
          Len(filtered_df) =
              Cardinality({i \in Numbered : NumberAt(i) >= salary_min})
    /\ HasRun("heatmap") =>
          /\ Chart("heatmap").index = {} <=> Numbered = {}
          /\ \A k \in DOMAIN Chart("heatmap").cell :
                IsMeanInHundredths(Chart("heatmap").cell[k], Numbered)
    /\ (HasRun("job_freq") /\ raw # <<>>) =>
          Chart("job_freq") = <<<<"Data Scientist", Len(raw)>>>>
    /\ (HasRun("salary_ranges") /\ raw # <<>>) =>
          Chart("salary_ranges")[<<Some("Data Scientist")>>] =
              [min |-> LeastAt(Numbered), max |-> GreatestAt(Numbered),
               mean |-> MeanAt(Numbered)]
    /\ (HasRun("top_companies") /\ raw # <<>>) =>
          Chart("top_companies") = <<<<Some("Acme"), MeanAt(Numbered)>>>>
    /\ (HasRun("employment") /\ raw # <<>>) =>
          Chart("employment") = <<<<"FT", Len(raw)>>>>
    /\ (HasRun("industry") /\ raw # <<>>) =>
          Chart("industry") = <<<<Some("Tech"), MeanAt(Numbered)>>>>
    /\ HasRun("stats") =>
          /\ Chart("stats").count = Cardinality(Numbered)
          /\ Chart("stats").min = Hundredths(LeastAt(Numbered))
          /\ Chart("stats").max = Hundredths(GreatestAt(Numbered))
          /\ IF Numbered = {} THEN IsNaN(Chart("stats").mean)
             ELSE IsMeanInHundredths(Chart("stats").mean, Numbered)

\* A finished run at threshold 0 on two rows: the first with a salary and
\* dates that do not parse, the second with salary 40000.  Both rows are
\* counted, the salary aggregates are those of the second row alone.
C3_Witness ==
    /\ pc = "done"
    /\ salary_min = 0
    /\ Len(raw) = 2
    /\ NotANumber(raw[1].salary_usd)
    /\ NotADate(raw[1].posting_date)
    /\ Len(df) = 2
    /\ IsNaN(df[1].salary_usd)
    /\ df[2].salary_usd = Some(40000)
    /\ Len(filtered_df) = 1
    /\ Chart("job_freq") = <<<<"Data Scientist", 2>>>>
    /\ Chart("stats").count = 1
    /\ Chart("stats").min = Some(4000000)
    /\ Chart("stats").mean = Some(4000000)

\* What the date texts of the model stand for.
YearOf(text) ==
    IF text = Date2024 THEN Some(2024) ELSE IF text = Date2025 THEN Some(2025) ELSE NaN

MonthOf(text) ==
    IF text = Date2024 THEN Some(1) ELSE IF text = Date2025 THEN Some(3) ELSE NaN

\* Days from the posting date to the deadline: 2024-01-31 to 2025-03-01 is
\* 395 days.
SpanOf(deadline, posting) ==
    IF deadline # Date2025 \/ IsNaN(YearOf(posting)) THEN NaN
    ELSE IF posting = Date2024 THEN Some(395) ELSE Some(0)

\* The rows of the dataset that have a posting date.
Dated == {i \in 1..Len(raw) : NotNaN(YearOf(raw[i].posting_date))}

\* The Data Scientist rows posted in 2024.
Static2024 ==
    {i \in 1..Len(raw) : /\ raw[i].job_title = Some("Data Scientist")
                         /\ YearOf(raw[i].posting_date) = Some(2024)}

\* C8: each row gets its posting year and month and, in the deadline section,
\* its deadline span in days, each missing when a date it needs is; a row
\* without a posting date is counted in no month, is in no (year, experience
\* level) group and is not among the rows of 2024; the deadline histogram is
\* given the spans of the rows that have both dates, and no others.
C8_DerivedOrMissing ==
    /\ pc # "cleanup" =>
          \A i \in 1..Len(raw) :
              /\ df[i].posting_year = YearOf(raw[i].posting_date)
              /\ df[i].posting_month = MonthOf(raw[i].posting_date)
    /\ HasRun("time_series") =>
          DOMAIN Chart("time_series") =
              {<<YearOf(raw[i].posting_date), raw[i].experience_level>> : i \in Dated}
    /\ HasRun("ds_2024") =>
          IF Static2024 = {}
          THEN Section(page, "ds_2024")[2] = Text("ds_2024", "warning_none_found")
          ELSE /\ Section(page, "ds_2024")[2].fn = "plotly"
               /\ Len(Chart("ds_2024")) = Cardinality(Static2024)
    /\ HasRun("monthly") =>
          /\ DOMAIN Chart("monthly") = {<<MonthOf(raw[i].posting_date)>> : i \in Dated}
          /\ \A k \in DOMAIN Chart("monthly") :
                Chart("monthly")[k] =
                    Cardinality({i \in Dated : MonthOf(raw[i].posting_date) = k[1]})
    /\ HasRun("deadline") =>
          /\ \A i \in 1..Len(raw) :
                df[i].deadline_days =
                    SpanOf(raw[i].application_deadline, raw[i].posting_date)
          /\ Chart("deadline") =
                DropNa([i \in 1..Len(raw) |->
                           SpanOf(raw[i].application_deadline, raw[i].posting_date)])

\* A finished run on a Data Scientist row whose posting date is no calendar
\* date, followed by a row posted 31 January 2024 with deadline 1 March 2025:
\* only the second is counted, in January, and its span is 395 days.
C8_Witness ==
    /\ pc = "done"
    /\ Len(raw) = 2
    /\ raw[1].job_title = Some("Data Scientist")
    /\ raw[1].posting_date = DateNoSuchDay
    /\ raw[1].application_deadline = Date2025
    /\ raw[2].job_title = Some("ML Engineer")
    /\ raw[2].posting_date = Date2024
    /\ raw[2].application_deadline = Date2025
    /\ IsNaN(df[1].posting_year)
    /\ IsNaN(df[1].deadline_days)
    /\ df[2].deadline_days = Some(395)
    /\ DOMAIN Chart("monthly") = {<<Some(1)>>}
    /\ Chart("monthly")[<<Some(1)>>] = 1
    /\ Section(page, "ds_2024")[2].what = "warning_none_found"
    /\ Chart("deadline") = <<Some(395)>>

-----------------------------------------------------------------------------
(* Claims about the pivot *)

\* The rows of top_data with title t, location l and a salary.
CellRows(t, l) ==
    {i \in 1..Len(top_data) : /\ top_data[i].job_title = t
                              /\ top_data[i].company_location = l
                              /\ NotNaN(top_data[i].salary_usd)}

RECURSIVE CellSum(_)
CellSum(S) ==
    IF S = {} THEN 0
    ELSE LET i == CHOOSE j \in S : TRUE
         IN Val(top_data[i].salary_usd) + CellSum(S \ {i})

\* Whether c holds, in hundredths, the mean salary of the rows S of top_data
\* rounded to the nearest hundredth.
IsCellMean(c, S) ==
    LET d == 100 * CellSum(S) - Val(c) * Cardinality(S)
    IN NotNaN(c) /\ 2 * d <= Cardinality(S) /\ 2 * (0 - d) <= Cardinality(S)

\* The rows of df in both top sets.
InBothTopSets ==
    {i \in 1..Len(df) : /\ IsIn(df[i].job_title, top_titles)
                        /\ IsIn(df[i].company_location, top_locations)}

\* C9 (as amended): top_data holds the rows of df in both top sets; the
\* pivot's row and column labels are the titles and locations of top_data
\* that have a salary in some cell; every cell of the table whose combination
\* has a salary holds the mean of exactly those salaries rounded to two
\* decimals, and every other cell of the table is missing, never 0.  A title
\* or location none of whose rows has a salary has no row or column at all.
C9_CellsAreRoundedMeans ==
    /\ HasRun("insights") => Len(top_data) = Cardinality(InBothTopSets)
    /\ HasRun("heatmap") =>
          /\ Chart("heatmap").index =
                {t \in Range(Column(top_data, "job_title")) :
                    \E l \in Range(Column(top_data, "company_location")) :
                        CellRows(t, l) # {}}
          /\ Chart("heatmap").columns =
                {l \in Range(Column(top_data, "company_location")) :
                    \E t \in Range(Column(top_data, "job_title")) :
                        CellRows(t, l) # {}}
          /\ DOMAIN Chart("heatmap").cell =
                Chart("heatmap").index \X Chart("heatmap").columns
          /\ \A k \in DOMAIN Chart("heatmap").cell :
                IF CellRows(k[1], k[2]) = {}
                THEN IsNaN(Chart("heatmap").cell[k])
                ELSE IsCellMean(Chart("heatmap").cell[k], CellRows(k[1], k[2]))

\* A pivot with a true zero and two cells without data: a Data Scientist in
\* the United States at 40000, an ML Engineer in the United Kingdom at 0 and
\* one in the United States whose salary did not parse.
C9_Witness ==
    /\ pc = "boxplot"
    /\ Len(top_data) = 3
    /\ Chart("heatmap").index = {Some("Data Scientist"), Some("ML Engineer")}
    /\ Chart("heatmap").columns = {Some("United States"), Some("United Kingdom")}
    /\ Chart("heatmap").cell[<<Some("Data Scientist"), Some("United States")>>]
          = Some(4000000)
    /\ Chart("heatmap").cell[<<Some("ML Engineer"), Some("United Kingdom")>>]
          = Some(0)
    /\ CellRows(Some("Data Scientist"), Some("United Kingdom")) = {}
    /\ IsNaN(Chart("heatmap").cell[<<Some("Data Scientist"), Some("United Kingdom")>>])
    /\ \E i \in 1..Len(top_data) :
          /\ top_data[i].job_title = Some("ML Engineer")
          /\ top_data[i].company_location = Some("United States")
          /\ IsNaN(top_data[i].salary_usd)
    /\ IsNaN(Chart("heatmap").cell[<<Some("ML Engineer"), Some("United States")>>])

\* C9 (as claimed): every combination of a top title and a top location is a
\* cell of the table, a missing one when the combination has no salary, and
\* otherwise one that equals the mean of the combination's salaries.
C9_EveryCombinationIsACell ==
    HasRun("heatmap") =>
        \A t \in Range(top_titles), l \in Range(top_locations) :
            /\ <<Some(t), Some(l)>> \in DOMAIN Chart("heatmap").cell
            /\ IF CellRows(Some(t), Some(l)) = {}
               THEN IsNaN(Chart("heatmap").cell[<<Some(t), Some(l)>>])
               ELSE /\ NotNaN(Chart("heatmap").cell[<<Some(t), Some(l)>>])
                    /\ Val(Chart("heatmap").cell[<<Some(t), Some(l)>>])
                          * Cardinality(CellRows(Some(t), Some(l)))
                        = 100 * CellSum(CellRows(Some(t), Some(l)))

-----------------------------------------------------------------------------
(* Claims about the top-N sets, the grouped means and the skills *)

\* Where v first appears among the cells.
FirstAt(cells, v) ==
    CHOOSE i \in 1..Len(cells) : cells[i] = v /\ \A j \in 1..(i - 1) : cells[j] # v

\* v ranks above w: more frequent, or as frequent and encountered earlier.
RanksAbove(cells, v, w) ==
    \/ CountOf(cells, v) > CountOf(cells, w)
    \/ /\ CountOf(cells, v) = CountOf(cells, w)
       /\ FirstAt(cells, v) < FirstAt(cells, w)

\* s lists the n highest ranking values of the cells, highest first.
IsTopN(s, cells, n) ==
    /\ Len(s) = Min2(n, Cardinality(Range(DropNa(cells))))
    /\ \A i \in 1..Len(s) : Some(s[i]) \in Range(cells)
    /\ \A i, j \in 1..Len(s) : i < j => RanksAbove(cells, Some(s[i]), Some(s[j]))
    /\ \A c \in Range(DropNa(cells)) :
          Val(c) \notin Range(s) =>
              \A i \in 1..Len(s) : RanksAbove(cells, Some(s[i]), c)

\* C4 (as claimed): every top-N list of the script holds the n most frequent
\* values, most frequent first, a value encountered earlier before one as
\* frequent: the top 10 titles and locations, the top 15 skills, the top 15
\* titles of the frequency chart, and the 30 locations of the map.
C4_TopNEarlierFirst ==
    /\ HasRun("insights") =>
          /\ IsTopN(top_titles, Column(df, "job_title"), TopTitlesN)
          /\ IsTopN(top_locations, Column(df, "company_location"), TopLocationsN)
    /\ HasRun("skills") =>
          IsTopN(IndexList(skill_counts),
                 [i \in 1..Len(all_skills) |-> Some(all_skills[i])], TopSkillsN)
    /\ HasRun("job_freq") =>
          IsTopN(IndexList(Chart("job_freq")), Column(df, "job_title"), JobFreqN)
    /\ HasRun("choropleth") =>
          {k[1] : k \in DOMAIN Chart("choropleth")} =
              {c \in Range(Column(df, "company_location")) :
                  Cardinality({w \in Range(Column(df, "company_location")) :
                                  RanksAbove(Column(df, "company_location"), w, c)})
                      < MapLocationsN}

\* C5 (as claimed): every grouped salary mean on the page is the mean of the
\* salaries of its group, and no group is there without a mean.
C5_NoGroupWithoutAMean ==
    /\ HasRun("time_series") =>
          \A k \in DOMAIN Chart("time_series") : NotNaN(Chart("time_series")[k])
    /\ HasRun("exp_country") =>
          \A k \in DOMAIN Chart("exp_country") : NotNaN(Chart("exp_country")[k])
    /\ HasRun("choropleth") =>
          \A k \in DOMAIN Chart("choropleth") : NotNaN(Chart("choropleth")[k])
    /\ HasRun("skill_salary") =>
          \A i \in 1..Len(Chart("skill_salary")) : NotNaN(Chart("skill_salary")[i][2])
    /\ HasRun("top_companies") =>
          \A i \in 1..Len(Chart("top_companies")) :
              /\ NotNaN(Chart("top_companies")[i][2])
              /\ Chart("top_companies")[i][2] =
                    MeanAt({r \in Numbered :
                               raw[r].company_name = Chart("top_companies")[i][1]})
    /\ HasRun("industry") =>
          \A i \in 1..Len(Chart("industry")) :
              /\ NotNaN(Chart("industry")[i][2])
              /\ Chart("industry")[i][2] =
                    MeanAt({r \in Numbered :
                               raw[r].industry = Chart("industry")[i][1]})

\* A token with no whitespace around it, and not empty.
IsTrimmed(tok) == tok # <<>> /\ ~IsSpace(tok[1]) /\ ~IsSpace(tok[Len(tok)])

\* How many pieces between the commas of a text hold more than whitespace.
WordPieces(text) ==
    Cardinality({i \in 1..Len(text) :
                    /\ text[i] \notin {",", " "}
                    /\ \A j \in 1..(i - 1) :
                          text[j] \notin {",", " "} =>
                              \E k \in (j + 1)..(i - 1) : text[k] = ","})

\* C6 (as claimed): on both paths the tokens of the skills texts are trimmed
\* and none is empty, there is one per piece of text that holds more than
\* whitespace, and the rows of the second path carry the tokens of the first.
C6_BothPathsSameTokens ==
    HasRun("skill_salary") =>
        /\ \A i \in 1..Len(all_skills) : IsTrimmed(all_skills[i])
        /\ \A i \in 1..Len(raw) :
              NotNaN(raw[i].required_skills) =>
                  Len(all_skills) = WordPieces(Val(raw[i].required_skills))
        /\ \A i \in 1..Len(exploded_skills) :
              IsTrimmed(Val(exploded_skills[i].required_skills))
        /\ [i \in 1..Len(exploded_skills) |-> Val(exploded_skills[i].required_skills)]
              = all_skills

====
